---- MODULE Spec2Model ----
(***************************************************************************)
(* The Events pub/sub bus of src/src/main.js as a state machine.           *)
(*                                                                         *)
(* State: the singleton's two collections (registeredEvents, events), the  *)
(* emissions issued so far with the position of each of their handler      *)
(* invocations, the synchronous call stack of emit() calls, the once()     *)
(* wrappers created so far, and the unsubscribe closures the caller kept.  *)
(*                                                                         *)
(* JavaScript runs to completion: while an emit() is in its synchronous    *)
(* fan-out (stack # <<>>), only the running handler can call the bus.      *)
(* Promise reactions (a pending handler settling, Promise.all resolving)   *)
(* run only with an empty stack.                                           *)
(***************************************************************************)
EXTENDS Integers, Sequences, FiniteSets, TLC

\* ----------------------------------------------------------------- bounds
MaxEmits == 2      \* emit() calls issued in one behaviour (nested ones included)
MaxOnce == 1       \* once() wrappers created in one behaviour
MaxTokens == 1     \* unsubscribe closures the caller keeps hold of
MaxSubs == 2       \* subscribers of one event at a time
MaxRepeat == 3     \* once() calls, and closures kept, where once() is repeated

\* ----------------------------------------------------------------- values
Names == {"a", "b"}                 \* the event-name strings in use
NonStrings == {"#123"}              \* a value with typeof # 'string' (the number 123)
Handlers == {"h1", "h2"}            \* function references
AsyncHandlers == {"h2"}             \* h2 is an async function, h1 an ordinary one
NonFunctions == {"nf"}              \* a value with typeof # 'function'

\* A callback reference: the function fn itself (w = 0), or the w-th wrapper
\* closure created by once(), which wraps fn.
Callback(fn, w) == [fn |-> fn, w |-> w]
NoCallback == Callback("", 0)
PlainCallbacks == {Callback(f, 0) : f \in Handlers \cup NonFunctions}

IsString(x) == x \in Names
IsFunction(cb) == cb.fn \in Handlers

\* Arguments of setup(): an array of up to two elements, or a non-array.
ArrayOf(items) == [isArray |-> TRUE, items |-> items]
NotAnArray == [isArray |-> FALSE, items |-> <<>>]
Elements == Names \cup NonStrings
SetupInputs ==
  {NotAnArray} \cup {ArrayOf(<<>>)}
    \cup {ArrayOf(<<x>>) : x \in Elements}
    \cup {ArrayOf(<<x, y>>) : x \in Elements, y \in Elements}

Range(s) == {s[i] : i \in DOMAIN s}

\* Argument lists of emit(event, ...args): none, one, and two in either order.
ArgLists == {<<>>, <<"42">>, <<"42", "x">>, <<"x", "42">>}
NoArgs == <<>>

\* ----------------------------------------------------------------- state
VARIABLES
  registeredEvents,  \* Set<string>
  events,            \* Map<string, Set<Function>>; a Set keeps insertion order
  emissions,         \* every emit() call issued so far, by id
  stack,             \* ids of the emit() calls whose synchronous fan-out is running
  wrappers,          \* the once() wrappers created so far, by number
  tokens,            \* unsubscribe closures the caller still holds; stale: returned before
                     \* the last reset; usedStale: called since then; calls: how often it
                     \* was called (history, counted up to two where the history is kept);
                     \* born: emit() calls issued before it was returned; early: a once()
                     \* closure called before any emit of its event was issued (history,
                     \* where it is kept)
  passed,            \* history: strings that were elements of a setup() array since the last reset
  passedBeforeBad,   \* history: those that stood before the first non-string of their array
  instance,          \* Events.instance, the object every new Events() hands out;
                     \* registeredEvents and events are its fields
  held,              \* the objects callers got from new Events(), line 170 included
  result,            \* how the last call into the bus ended ("ok", or the error thrown)
  last,              \* history: the last call other than emit, what it found, and the
                     \* emit() calls issued since; kept only in behaviours that record it
  sinceReset         \* history: the emit() calls issued and the subscriptions made
                     \* since the last reset; kept only in behaviours that record it

vars == <<registeredEvents, events, emissions, stack, wrappers, tokens,
          passed, passedBeforeBad, instance, held, result, last, sinceReset>>

EmptyMap == [k \in {} |-> <<>>]

\* The bus as a value, for the methods below.
Bus == [reg |-> registeredEvents, ev |-> events]
Ret(reg, ev, res) == [reg |-> reg, ev |-> ev, result |-> res]

\* ------------------------------------------------- Set and Map primitives
\* Mutant: an array with push() where a Set with add() was meant.
ArrayPush(s, x) == Append(s, x)

SetAdd(s, x) == IF x \in Range(s) THEN s ELSE Append(s, x)
SetDelete(s, x) == SelectSeq(s, LAMBDA y : y # x)
MapHas(m, k) == k \in DOMAIN m
MapSet(m, k, v) == [x \in DOMAIN m \cup {k} |-> IF x = k THEN v ELSE m[x]]

\* ------------------------------------------------------- the bus methods
\* Objects: the one constructed at module load (const events = new Events()),
\* and any object a later new-expression allocates as its this.
NoInstance == "null"
Singleton == "events"
Allocated == "this"

\* Mutant: the constructor has no instance check.
constructorUnguarded(inst, this) ==
  [ret |-> this, instance |-> this, initialised |-> TRUE]

\* constructor(): hands out Events.instance when it is set, else initialises
\* this and makes it the instance.
constructor(inst, this) ==
  IF inst # NoInstance
  THEN [ret |-> inst, instance |-> inst, initialised |-> FALSE]
  ELSE [ret |-> this, instance |-> this, initialised |-> TRUE]

\* Mutant: the subscriber set is created anew whether or not the name has one.
registerResets(bus, eventName) ==
  [reg |-> bus.reg \cup {eventName}, ev |-> MapSet(bus.ev, eventName, <<>>)]

\* One pass of the loop body for a string: add the name, and give it an empty
\* subscriber set only if it has none.
register(bus, eventName) ==
  [reg |-> bus.reg \cup {eventName},
   ev |-> IF MapHas(bus.ev, eventName) THEN bus.ev
          ELSE MapSet(bus.ev, eventName, <<>>)]

\* setup(eventNames): the loop body registers element i before element i+1 is looked at.
RECURSIVE setupLoop(_, _, _)
setupLoop(bus, items, i) ==
  IF i > Len(items) THEN Ret(bus.reg, bus.ev, "ok")
  ELSE IF ~IsString(items[i]) THEN Ret(bus.reg, bus.ev, "InvalidArgument")
  ELSE setupLoop(register(bus, items[i]), items, i + 1)

\* Mutant: all elements are validated before any is registered.
setupValidatesFirst(bus, eventNames) ==
  IF ~eventNames.isArray THEN Ret(bus.reg, bus.ev, "InvalidArgument")
  ELSE IF \E i \in DOMAIN eventNames.items : ~IsString(eventNames.items[i])
       THEN Ret(bus.reg, bus.ev, "InvalidArgument")
       ELSE setupLoop(bus, eventNames.items, 1)

setup(bus, eventNames) ==
  IF ~eventNames.isArray THEN Ret(bus.reg, bus.ev, "InvalidArgument")
  ELSE setupLoop(bus, eventNames.items, 1)

\* Mutant: the registration check is missing; the subscriber set is created on demand.
subscribeUngated(bus, event, callback) ==
  IF ~IsFunction(callback) THEN Ret(bus.reg, bus.ev, "InvalidArgument")
  ELSE Ret(bus.reg,
           MapSet(bus.ev, event,
                  SetAdd(IF MapHas(bus.ev, event) THEN bus.ev[event] ELSE <<>>, callback)),
           "ok")

subscribe(bus, event, callback) ==
  IF event \notin bus.reg THEN Ret(bus.reg, bus.ev, "NotRegistered")
  ELSE IF ~IsFunction(callback) THEN Ret(bus.reg, bus.ev, "InvalidArgument")
  ELSE IF ~MapHas(bus.ev, event) THEN Ret(bus.reg, bus.ev, "TypeError")
  ELSE Ret(bus.reg, [bus.ev EXCEPT ![event] = SetAdd(@, callback)], "ok")

\* once(event, callback): the same two checks, then subscribe(event, wrapper).
once(bus, event, callback, wrapper) ==
  IF event \notin bus.reg THEN Ret(bus.reg, bus.ev, "NotRegistered")
  ELSE IF ~IsFunction(callback) THEN Ret(bus.reg, bus.ev, "InvalidArgument")
  ELSE subscribe(bus, event, wrapper)

\* Mutant: the once() wrappers of the callback are deleted along with it.
unsubscribeWrapped(bus, event, callback) ==
  IF ~MapHas(bus.ev, event) THEN Ret(bus.reg, bus.ev, "ok")
  ELSE Ret(bus.reg,
           [bus.ev EXCEPT ![event] = SelectSeq(@, LAMBDA m : m.fn # callback.fn)],
           "ok")

\* Mutant: the delete is missing.
unsubscribeForgets(bus, event, callback) == Ret(bus.reg, bus.ev, "ok")

\* Mutant: subscribers.clear() where subscribers.delete(callback) was meant.
unsubscribeEveryone(bus, event, callback) ==
  IF ~MapHas(bus.ev, event) THEN Ret(bus.reg, bus.ev, "ok")
  ELSE Ret(bus.reg, [bus.ev EXCEPT ![event] = <<>>], "ok")

\* Mutant: the guard against a missing entry is gone; subscribers is undefined.
unsubscribeUnguarded(bus, event, callback) ==
  IF ~MapHas(bus.ev, event) THEN Ret(bus.reg, bus.ev, "TypeError")
  ELSE Ret(bus.reg, [bus.ev EXCEPT ![event] = SetDelete(@, callback)], "ok")

unsubscribe(bus, event, callback) ==
  IF ~MapHas(bus.ev, event) THEN Ret(bus.reg, bus.ev, "ok")
  ELSE Ret(bus.reg, [bus.ev EXCEPT ![event] = SetDelete(@, callback)], "ok")

\* The closure subscribe() returns: () => this.unsubscribe(event, callback).
unsubscribeClosure(bus, t) == unsubscribe(bus, t.event, t.cb)

\* What that closure closes over.
subscribeReturns(event, callback) == [event |-> event, cb |-> callback]

\* Mutant: once returns a closure over the handler it was given.
onceReturnsForCallback(event, callback, wrapper) == subscribeReturns(event, callback)

\* return this.subscribe(event, wrapper): the closure is over the wrapper.
onceReturns(event, callback, wrapper) == subscribeReturns(event, wrapper)

\* Mutant: this.events.delete(event) where this.events.get(event).clear() was meant.
clearDeletesEntry(bus, event) ==
  IF MapHas(bus.ev, event)
  THEN Ret(bus.reg, [e \in DOMAIN bus.ev \ {event} |-> bus.ev[e]], "ok")
  ELSE Ret(bus.reg, bus.ev, "ok")

\* Mutant: no check for a missing entry; get(event) is undefined.
clearUnguarded(bus, event) ==
  IF MapHas(bus.ev, event) THEN Ret(bus.reg, [bus.ev EXCEPT ![event] = <<>>], "ok")
  ELSE Ret(bus.reg, bus.ev, "TypeError")

clear(bus, event) ==
  IF MapHas(bus.ev, event) THEN Ret(bus.reg, [bus.ev EXCEPT ![event] = <<>>], "ok")
  ELSE Ret(bus.reg, bus.ev, "ok")

\* Mutant: only the registry is cleared.
resetKeepsSubscribers(bus) == Ret({}, bus.ev, "ok")

reset(bus) == Ret({}, EmptyMap, "ok")

\* Mutant: the wrapper forgets to remove itself.
wrapperKeepsItself(bus, event, wrapper) == Ret(bus.reg, bus.ev, "ok")

\* Mutant: once() hands the callback itself to subscribe, with no wrapper of
\* its own around it, so that the Set deduplicates it.
onceWrapperShared(callback, n) == Callback(callback.fn, 1)

\* const wrapper = async (...args) => { ... }: every once() call creates a
\* function object of its own, the n-th created in this behaviour.
onceWrapper(callback, n) == Callback(callback.fn, n)

\* Mutant: the wrapper empties the subscriber set of its event.
wrapperClearsEvent(bus, event, wrapper) == clear(bus, event)

\* First statement of the once() wrapper: this.unsubscribe(event, wrapper).
wrapperRemovesItself(bus, event, wrapper) == unsubscribe(bus, event, wrapper)

\* ------------------------------------------------------------ emissions
\* One handler invocation of an emission.  st is where it stands:
\*   "running"   its synchronous part is executing
\*   "pending"   it returned a promise that has not settled yet
\*   "returned"  it returned synchronously      "threw"     it threw synchronously
\*   "resolved"  its promise resolved           "rejected"  its promise rejected
\* args: the arguments the handler function was called with.
Invocation(cb, st, args) == [cb |-> cb, st |-> st, args |-> args]
Finished == {"returned", "threw", "resolved", "rejected"}
Failed == {"threw", "rejected"}

\* args: the arguments emit was called with after the event name.
\* phase: "dispatch" (the map() over the snapshot is running), "awaiting" (emit has
\* returned its promise and awaits Promise.all), "resolved", "rejected".
\* diag: how many console.error lines the call has written, per event name
\* that the line quotes.
\* called: the running handler has already made its one call into the bus.
NewEmission(event, args, snapshot, phase) ==
  [event |-> event, args |-> args, snapshot |-> snapshot, invoked |-> <<>>,
   phase |-> phase, diag |-> [e \in Names |-> 0], called |-> FALSE]

InFlight(em) == em.phase \in {"dispatch", "awaiting"}
AnyInFlight == \E id \in DOMAIN emissions : InFlight(emissions[id])
Running(em) == Len(em.invoked) > 0 /\ em.invoked[Len(em.invoked)].st = "running"
Top == stack[Len(stack)]

\* Array.from(subscribers): a copy of the Set, in insertion order.
ArrayFrom(subscribers) == subscribers

\* A rest parameter (...args) collects the actual arguments into an array, in
\* order; a spread call f(...args) passes the elements of the array, in order.
RestParameter(actuals) == [i \in 1..Len(actuals) |-> actuals[i]]
SpreadCall(array) == [i \in 1..Len(array) |-> array[i]]

\* Mutant: the handler is called with the array itself as its one argument.
callbackUnspread(args) == <<args>>

\* callback(...args) in the map() callback of emit(event, ...args).
callbackSpread(args) == SpreadCall(args)

\* Mutant: the wrapper takes no parameters and calls callback().
wrapperDropsArgs(actuals) == <<>>

\* The once() wrapper: async (...args) => { ...; await callback(...args) }.
wrapperForwards(actuals) == SpreadCall(RestParameter(actuals))

\* Mutant: the fan-out walks the live Set instead of a copy of it.
liveTargets(em, bus) == IF MapHas(bus.ev, em.event) THEN bus.ev[em.event] ELSE <<>>

\* The array that map() walks: the copy taken when emit was called.
targets(em, bus) == em.snapshot

\* Mutant: for (const callback of array) { await callback(...args) }: the next
\* handler is called when every promise before it has settled.
mapAwaitsEach(em) == \A i \in DOMAIN em.invoked : em.invoked[i].st \in Finished

\* Array.prototype.map with an async callback: the callback returns a promise at
\* its first await, and map calls it for the next element as soon as the
\* synchronous part of the previous call is over.
mapContinues(em) == ~Running(em)

\* Mutant: no try/catch around the handler; the exception ends the fan-out and emit rejects.
propagateError(em, i, st) ==
  [em EXCEPT !.invoked[i].st = st, !.phase = "rejected"]

\* Mutant: catch (error) {}: the failure is swallowed without a line.
catchSilently(em, i, st) == [em EXCEPT !.invoked[i].st = st]

\* catch (error) { console.error(`Error in event handler for "${event}":`, error) }:
\* the failure stays with its handler and one line quoting emit's event is written.
catchError(em, i, st) ==
  [em EXCEPT !.invoked[i].st = st, !.diag[em.event] = @ + 1]

\* The invocation i of em ends its current stretch with status st.
settle(em, i, st) ==
  IF st \in Failed THEN catchError(em, i, st) ELSE [em EXCEPT !.invoked[i].st = st]

\* Mutant: the promises are not awaited.
promiseAllUnawaited(em) == \A i \in DOMAIN em.invoked : em.invoked[i].st # "running"

\* await Promise.all(promises): every promise of the map has settled.
promiseAll(em) == \A i \in DOMAIN em.invoked : em.invoked[i].st \in Finished

\* ------------------------------------------------------------ the caller
\* Who may call the bus now: the top level (or the continuation of any async
\* function) when no synchronous code is running, else the handler that is
\* running, once per invocation.
CanCall ==
  \/ stack = <<>>
  \/ /\ stack # <<>>
     /\ Running(emissions[Top])
     /\ ~emissions[Top].called

Called(ems) == IF stack = <<>> THEN ems ELSE [ems EXCEPT ![Top].called = TRUE]

\* History kept per once() wrapper: calls counts the invocations of the wrapped
\* handler; clean says that since once() returned the bus was only used
\* sequentially (every call made while no emission was in flight) and nothing
\* removed the wrapper from outside; emits counts the emit() calls of its event
\* issued in that time.
NewWrapper(event, fn) ==
  [event |-> event, fn |-> fn, calls |-> 0, clean |-> ~AnyInFlight, emits |-> 0]

Disturb(ws, removed) ==
  [i \in DOMAIN ws |->
     IF AnyInFlight \/ i \in removed
     THEN [ws[i] EXCEPT !.clean = FALSE, !.emits = 0] ELSE ws[i]]

\* The call history.  hit: the call found its target in place (setup: the name
\* was registered already; subscribe, unsubscribe: the callback was a
\* subscriber already; clear: the event had an entry).
\* bus: registeredEvents and events as the call left them, in the behaviours
\* that keep it.
BusNotKept == [kept |-> FALSE, reg |-> {}, ev |-> EmptyMap]
BusKept(reg, ev) == [kept |-> TRUE, reg |-> reg, ev |-> ev]
Call(op, event, cb, hit) ==
  [op |-> op, event |-> event, cb |-> cb, hit |-> hit, since |-> {}, bus |-> BusNotKept]
Unrecorded == Call("unrecorded", "", NoCallback, FALSE)
NoCall == Call("none", "", NoCallback, FALSE)
Recorded(call) ==
  IF last = Unrecorded THEN last
  ELSE IF last.bus.kept THEN [call EXCEPT !.bus = BusKept(registeredEvents', events')]
  ELSE call
NothingSince == [kept |-> TRUE, emits |-> {}, subs |-> {}]
NotKept == [kept |-> FALSE, emits |-> {}, subs |-> {}]
Subscribed(event, cb, res) ==
  IF sinceReset.kept /\ res = "ok"
  THEN [sinceReset EXCEPT !.subs = @ \cup {<<event, cb>>}]
  ELSE sinceReset
IsSubscriber(event, cb) == MapHas(events, event) /\ cb \in Range(events[event])
FirstName(eventNames) ==
  IF eventNames.isArray /\ Len(eventNames.items) > 0 /\ IsString(eventNames.items[1])
  THEN eventNames.items[1] ELSE ""

\* ---------------------------------------------------------------- actions
\* new Events() somewhere in the program.
CallNew ==
  /\ CanCall
  /\ LET r == constructor(instance, Allocated) IN
       /\ instance' = r.instance
       /\ held' = held \cup {r.ret}
       /\ registeredEvents' = IF r.initialised THEN {} ELSE registeredEvents
       /\ events' = IF r.initialised THEN EmptyMap ELSE events
  /\ result' = "ok"
  /\ emissions' = Called(emissions)
  /\ wrappers' = Disturb(wrappers, {})
  /\ last' = Recorded(Call("new", "", NoCallback, instance # NoInstance))
  /\ UNCHANGED <<stack, tokens, passed, passedBeforeBad, sinceReset>>

CallSetup(eventNames) ==
  /\ CanCall
  /\ LET r == setup(Bus, eventNames) IN
       /\ registeredEvents' = r.reg
       /\ events' = r.ev
       /\ result' = r.result
  /\ passed' = passed \cup
       (IF eventNames.isArray THEN Range(eventNames.items) \cap Names ELSE {})
  /\ passedBeforeBad' = passedBeforeBad \cup
       (IF eventNames.isArray
        THEN {eventNames.items[i] : i \in
                {j \in DOMAIN eventNames.items :
                   \A k \in 1..j : IsString(eventNames.items[k])}}
        ELSE {})
  /\ emissions' = Called(emissions)
  /\ wrappers' = Disturb(wrappers, {})
  /\ last' = Recorded(Call("setup", FirstName(eventNames), NoCallback,
                           FirstName(eventNames) \in registeredEvents))
  /\ UNCHANGED <<stack, tokens, instance, held, sinceReset>>

\* keep: the caller holds on to the returned closure.
\* of: the number of the once() wrapper whose once() call returned it, 0 for
\* a closure returned by a direct subscribe() call.
Kept(closure, of, res, keep) ==
  IF keep /\ res = "ok"
  THEN tokens \cup {[event |-> closure.event, cb |-> closure.cb, of |-> of, stale |-> FALSE, usedStale |-> FALSE,
                     calls |-> 0, born |-> Len(emissions), early |-> FALSE]}
  ELSE tokens

CallSubscribe(event, callback, keep) ==
  /\ CanCall
  /\ LET r == subscribe(Bus, event, callback) IN
       /\ registeredEvents' = r.reg
       /\ events' = r.ev
       /\ result' = r.result
       /\ tokens' = Kept(subscribeReturns(event, callback), 0, r.result, keep)
       /\ Cardinality(tokens') <= MaxTokens
       /\ \A e \in DOMAIN r.ev : Len(r.ev[e]) <= MaxSubs
       /\ emissions' = Called(emissions)
  /\ wrappers' = Disturb(wrappers, {})
  /\ last' = Recorded(Call("subscribe", event, callback, IsSubscriber(event, callback)))
  /\ sinceReset' = Subscribed(event, callback, result')
  /\ UNCHANGED <<stack, passed, passedBeforeBad, instance, held>>

\* maxOnce, maxTokens: how many wrappers may exist and how many closures the
\* caller may hold after the call.
CallOnceUpTo(event, callback, keep, maxOnce, maxTokens) ==
  /\ CanCall
  /\ LET wrapper == onceWrapper(callback, Len(wrappers) + 1)
         r == once(Bus, event, callback, wrapper) IN
       /\ r.result = "ok" => Len(wrappers) < maxOnce
       /\ registeredEvents' = r.reg
       /\ events' = r.ev
       /\ result' = r.result
       /\ tokens' = Kept(onceReturns(event, callback, wrapper), wrapper.w, r.result, keep)
       /\ Cardinality(tokens') <= maxTokens
       /\ \A e \in DOMAIN r.ev : Len(r.ev[e]) <= MaxSubs
       /\ emissions' = Called(emissions)
       /\ wrappers' = IF r.result = "ok"
                      THEN Append(Disturb(wrappers, {}),
                                  NewWrapper(event, callback.fn))
                      ELSE Disturb(wrappers, {})
       /\ last' = Recorded(Call("once", event, wrapper, FALSE))
       /\ sinceReset' = Subscribed(event, wrapper, r.result)
  /\ UNCHANGED <<stack, passed, passedBeforeBad, instance, held>>

CallOnce(event, callback, keep) ==
  CallOnceUpTo(event, callback, keep, MaxOnce, MaxTokens)

CallUnsubscribe(event, callback) ==
  /\ CanCall
  /\ LET r == unsubscribe(Bus, event, callback) IN
       /\ registeredEvents' = r.reg
       /\ events' = r.ev
       /\ result' = r.result
  /\ emissions' = Called(emissions)
  /\ wrappers' = Disturb(wrappers, {})
  /\ last' = Recorded(Call("unsubscribe", event, callback, IsSubscriber(event, callback)))
  /\ UNCHANGED <<stack, tokens, passed, passedBeforeBad, instance, held, sinceReset>>

\* An emit(event) call was issued after the first n calls of emit.
EmittedSince(event, n) ==
  \E id \in DOMAIN emissions : id > n /\ emissions[id].event = event

\* The caller invokes an unsubscribe closure it holds.
CallToken(t) ==
  /\ CanCall
  /\ t \in tokens
  /\ LET r == unsubscribeClosure(Bus, t) IN
       /\ registeredEvents' = r.reg
       /\ events' = r.ev
       /\ result' = r.result
  /\ emissions' = Called(emissions)
  /\ wrappers' = Disturb(wrappers, {t.cb.w})
  /\ tokens' = (tokens \ {t}) \cup
       {[t EXCEPT !.usedStale = t.stale, !.calls = IF last = Unrecorded \/ @ = 2 THEN @ ELSE @ + 1,
                  !.early = @ \/ (last # Unrecorded /\ t.of > 0
                                     /\ ~EmittedSince(t.event, t.born))]}
  /\ last' = Recorded(Call("token", t.event, t.cb, IsSubscriber(t.event, t.cb)))
  /\ UNCHANGED <<stack, passed, passedBeforeBad, instance, held, sinceReset>>

CallClear(event) ==
  /\ CanCall
  /\ LET r == clear(Bus, event) IN
       /\ registeredEvents' = r.reg
       /\ events' = r.ev
       /\ result' = r.result
  /\ emissions' = Called(emissions)
  /\ wrappers' = Disturb(wrappers, {i \in DOMAIN wrappers : wrappers[i].event = event})
  /\ last' = Recorded(Call("clear", event, NoCallback, MapHas(events, event)))
  /\ UNCHANGED <<stack, tokens, passed, passedBeforeBad, instance, held, sinceReset>>

CallReset ==
  /\ CanCall
  /\ LET r == reset(Bus) IN
       /\ registeredEvents' = r.reg
       /\ events' = r.ev
       /\ result' = r.result
  /\ emissions' = Called(emissions)
  /\ wrappers' = Disturb(wrappers, DOMAIN wrappers)
  /\ tokens' = {[t EXCEPT !.stale = TRUE] : t \in tokens}
  /\ passed' = {}
  /\ passedBeforeBad' = {}
  /\ last' = Recorded(Call("reset", "", NoCallback, FALSE))
  /\ sinceReset' = IF sinceReset.kept THEN NothingSince ELSE sinceReset
  /\ UNCHANGED <<stack, instance, held>>

\* emit(event, ...args) up to the start of the fan-out: the early return for an
\* event without an entry, else the copy of the subscriber set.
CallEmit(event, actuals) ==
  /\ CanCall
  /\ Len(emissions) < MaxEmits
  /\ LET known == MapHas(events, event)
         args == actuals
         em == IF known
               THEN NewEmission(event, args, ArrayFrom(events[event]), "dispatch")
               ELSE NewEmission(event, args, <<>>, "awaiting") IN
       /\ emissions' = Append(Called(emissions), em)
       /\ stack' = IF known THEN Append(stack, Len(emissions) + 1) ELSE stack
  /\ wrappers' =
       [i \in DOMAIN wrappers |->
          IF AnyInFlight THEN [wrappers[i] EXCEPT !.clean = FALSE, !.emits = 0]
          ELSE IF wrappers[i].event = event /\ wrappers[i].clean
               THEN [wrappers[i] EXCEPT !.emits = IF @ < MaxEmits THEN @ + 1 ELSE @]
               ELSE wrappers[i]]
  /\ result' = "ok"
  /\ last' = IF last = Unrecorded THEN last
             ELSE [last EXCEPT !.since = @ \cup {Len(emissions) + 1}]
  /\ sinceReset' = IF sinceReset.kept
                   THEN [sinceReset EXCEPT !.emits = @ \cup {Len(emissions) + 1}]
                   ELSE sinceReset
  /\ UNCHANGED <<registeredEvents, events, tokens, passed, passedBeforeBad, instance, held>>

\* The map() callback calls the next handler of the array.  A once() wrapper
\* removes itself and calls the wrapped handler at once.
StartHandler ==
  /\ stack # <<>>
  /\ LET em == emissions[Top]
         i == Len(em.invoked) + 1 IN
       /\ em.phase = "dispatch"
       /\ mapContinues(em)
       /\ i <= Len(targets(em, Bus))
       /\ LET cb == targets(em, Bus)[i]
              r == IF cb.w > 0
                   THEN wrapperRemovesItself(Bus, wrappers[cb.w].event, cb)
                   ELSE Ret(registeredEvents, events, "ok") IN
            /\ registeredEvents' = r.reg
            /\ events' = r.ev
            /\ emissions' = [emissions EXCEPT
                 ![Top].invoked = Append(@, Invocation(cb, "running",
                     IF cb.w > 0
                     THEN wrapperForwards(callbackSpread(RestParameter(em.args)))
                     ELSE callbackSpread(RestParameter(em.args)))),
                 ![Top].called = FALSE]
            /\ wrappers' = IF cb.w > 0
                           THEN [wrappers EXCEPT ![cb.w].calls = @ + 1]
                           ELSE wrappers
  /\ result' = "ok"
  /\ UNCHANGED <<stack, tokens, passed, passedBeforeBad, instance, held, last, sinceReset>>

\* How the synchronous part of a call of fn can end: an ordinary function
\* returns or throws, an async function returns a promise.
SyncOutcomes(fn) ==
  IF fn \in AsyncHandlers THEN {"pending"} ELSE {"returned", "threw"}

\* The running handler's synchronous part ends.  (For a once() wrapper the
\* status is that of the wrapped handler's body.)
HandlerEnd(st) ==
  /\ stack # <<>>
  /\ Running(emissions[Top])
  /\ st \in SyncOutcomes(emissions[Top].invoked[Len(emissions[Top].invoked)].cb.fn)
  /\ emissions' = [emissions EXCEPT
       ![Top] = settle(emissions[Top], Len(emissions[Top].invoked), st)]
  /\ result' = "ok"
  /\ UNCHANGED <<registeredEvents, events, stack, wrappers, tokens, passed, passedBeforeBad,
                 instance, held, last, sinceReset>>

\* map() is done (or an exception left it): emit returns its promise.
EmitReturn ==
  /\ stack # <<>>
  /\ LET em == emissions[Top] IN
       /\ ~Running(em)
       /\ \/ em.phase = "rejected"
          \/ em.phase = "dispatch" /\ Len(em.invoked) >= Len(targets(em, Bus))
       /\ emissions' = [emissions EXCEPT
            ![Top].phase = IF em.phase = "rejected" THEN "rejected" ELSE "awaiting"]
  /\ stack' = SubSeq(stack, 1, Len(stack) - 1)
  /\ result' = "ok"
  /\ UNCHANGED <<registeredEvents, events, wrappers, tokens, passed, passedBeforeBad,
                 instance, held, last, sinceReset>>

\* A pending handler's promise settles.
Settle(id, i, st) ==
  /\ stack = <<>>
  /\ id \in DOMAIN emissions
  /\ i \in DOMAIN emissions[id].invoked
  /\ emissions[id].invoked[i].st = "pending"
  /\ emissions' = [emissions EXCEPT ![id] = settle(emissions[id], i, st)]
  /\ result' = "ok"
  /\ UNCHANGED <<registeredEvents, events, stack, wrappers, tokens, passed, passedBeforeBad,
                 instance, held, last, sinceReset>>

\* Promise.all settles and emit's promise resolves.
EmitResolve(id) ==
  /\ stack = <<>>
  /\ id \in DOMAIN emissions
  /\ emissions[id].phase = "awaiting"
  /\ promiseAll(emissions[id])
  /\ emissions' = [emissions EXCEPT ![id].phase = "resolved"]
  /\ result' = "ok"
  /\ UNCHANGED <<registeredEvents, events, stack, wrappers, tokens, passed, passedBeforeBad,
                 instance, held, last, sinceReset>>

\* The module's singleton right after construction, nothing called yet.
Constructed ==
  /\ registeredEvents = {}
  /\ events = EmptyMap
  /\ emissions = <<>>
  /\ stack = <<>>
  /\ wrappers = <<>>
  /\ tokens = {}
  /\ passed = {}
  /\ passedBeforeBad = {}
  /\ instance = Singleton
  /\ held = {Singleton}
  /\ result = "ok"

Init == Constructed /\ last = Unrecorded /\ sinceReset = NotKept

\* The same start, with the call history recorded, without and with the
\* history since the last reset.
InitRecorded == Constructed /\ last = NoCall /\ sinceReset = NotKept
InitSinceReset == Constructed /\ last = NoCall /\ sinceReset = NothingSince
\* The same start, with the call history and the bus each call left recorded.
InitBusKept ==
  /\ Constructed
  /\ last = [NoCall EXCEPT !.bus = BusKept({}, EmptyMap)]
  /\ sinceReset = NotKept

\* ---------------------------------------------------------- specifications
Functions == {Callback(f, 0) : f \in Handlers}

\* What happens between two turns of the event loop's caller: promises settle.
IdleStep ==
  \/ \E id \in 1..MaxEmits, i \in 1..MaxSubs, st \in {"resolved", "rejected"} :
       Settle(id, i, st)
  \/ \E id \in 1..MaxEmits : EmitResolve(id)

\* The whole bus: every method with every argument, from the top level and
\* from inside running handlers.
Next ==
  \/ CallNew
  \/ \E x \in SetupInputs : CallSetup(x)
  \/ \E e \in Names, cb \in PlainCallbacks, keep \in BOOLEAN : CallSubscribe(e, cb, keep)
  \/ \E e \in Names, cb \in PlainCallbacks, keep \in BOOLEAN : CallOnce(e, cb, keep)
  \/ \E e \in Names, cb \in PlainCallbacks : CallUnsubscribe(e, cb)
  \/ \E t \in tokens : CallToken(t)
  \/ \E e \in Names : CallClear(e)
  \/ CallReset
  \/ \E e \in Names, actuals \in ArgLists : CallEmit(e, actuals)
  \/ StartHandler
  \/ \E st \in {"returned", "threw", "pending"} : HandlerEnd(st)
  \/ EmitReturn
  \/ IdleStep

Spec == Init /\ [][Next]_vars

\* Three parts of Spec, each small enough to explore in full.
\*
\* NextBus: the registry and the subscriber sets under every method except
\* emit, with valid and invalid arguments and two event names; the returned
\* closures are dropped.
NextBus ==
  \/ \E x \in SetupInputs : CallSetup(x)
  \/ \E e \in Names, cb \in PlainCallbacks : CallSubscribe(e, cb, FALSE)
  \/ \E e \in Names, cb \in PlainCallbacks : CallOnce(e, cb, FALSE)
  \/ \E e \in Names, cb \in PlainCallbacks : CallUnsubscribe(e, cb)
  \/ \E e \in Names : CallClear(e)
  \/ CallReset

SpecBus == Init /\ [][NextBus]_vars

\* NextToken: the unsubscribe closures.  The caller keeps some of the closures
\* that subscribe and once return and calls them at any later time, also
\* after clear, reset and a new setup.
NextToken ==
  \/ \E e \in Names : CallSetup(ArrayOf(<<e>>))
  \/ \E e \in Names, cb \in Functions, keep \in BOOLEAN : CallSubscribe(e, cb, keep)
  \/ \E e \in Names, keep \in BOOLEAN : CallOnce(e, Callback("h1", 0), keep)
  \/ \E e \in Names, cb \in Functions : CallUnsubscribe(e, cb)
  \/ \E t \in tokens : CallToken(t)
  \/ \E e \in Names : CallClear(e)
  \/ CallReset

SpecToken == Init /\ [][NextToken]_vars

\* NextEmit: emissions of one event.  Its handlers run, call back into the bus
\* (a nested emit included), return, throw or settle later, while the top
\* level goes on calling the bus between the asynchronous steps.
NextEmit ==
  \/ CallSetup(ArrayOf(<<"a">>))
  \/ \E cb \in Functions : CallSubscribe("a", cb, FALSE)
  \/ \E cb \in Functions : CallOnce("a", cb, FALSE)
  \/ \E cb \in Functions : CallUnsubscribe("a", cb)
  \/ CallClear("a")
  \/ CallReset
  \/ CallEmit("a", NoArgs)
  \/ StartHandler
  \/ \E st \in {"returned", "threw", "pending"} : HandlerEnd(st)
  \/ EmitReturn
  \/ IdleStep

SpecEmit == Init /\ [][NextEmit]_vars

\* The caller at the top level, and the caller that has awaited every emit
\* call it issued.
TopLevel == stack = <<>>
Idle == TopLevel /\ ~AnyInFlight

\* NextSeq: the bus used sequentially, with the call history recorded: two
\* events, every method but once, the returned closures dropped, emit calls
\* of one event, each awaited before the next call; a handler returns, or
\* returns a promise that resolves or rejects.
NextSeq ==
  \/ Idle /\ CallNew
  \/ \E e \in Names : Idle /\ CallSetup(ArrayOf(<<e>>))
  \/ \E e \in Names, cb \in Functions :
       Idle /\ (e = "a" \/ cb.fn = "h1") /\ CallSubscribe(e, cb, FALSE)
  \/ \E e \in Names, cb \in Functions :
       Idle /\ (e = "a" \/ cb.fn = "h1") /\ CallUnsubscribe(e, cb)
  \/ \E e \in Names : Idle /\ CallClear(e)
  \/ Idle /\ CallReset
  \/ Idle /\ CallEmit("a", NoArgs)
  \/ StartHandler
  \/ \E st \in {"returned", "pending"} : HandlerEnd(st)
  \/ EmitReturn
  \/ IdleStep

SpecSeq == InitRecorded /\ [][NextSeq]_vars

\* NextReset: registration, subscription, reset and emit calls, each emit call
\* awaited before the next call, with the history since the last reset recorded.
NextReset ==
  \/ \E e \in Names : Idle /\ CallSetup(ArrayOf(<<e>>))
  \/ \E e \in Names, cb \in Functions :
       Idle /\ (e = "a" \/ cb.fn = "h1") /\ CallSubscribe(e, cb, FALSE)
  \/ Idle /\ CallReset
  \/ Idle /\ CallEmit("a", NoArgs)
  \/ StartHandler
  \/ \E st \in {"returned", "threw", "pending"} : HandlerEnd(st)
  \/ EmitReturn
  \/ IdleStep

SpecReset == InitSinceReset /\ [][NextReset]_vars

\* NextTwice: the closures subscribe returns, with the call history recorded.
\* The caller keeps them and calls each any number of times, between other
\* subscriptions and removals on two events.
NextTwice ==
  \/ \E e \in Names : CallSetup(ArrayOf(<<e>>))
  \/ \E e \in Names, cb \in Functions, keep \in BOOLEAN : CallSubscribe(e, cb, keep)
  \/ \E e \in Names, cb \in Functions : CallUnsubscribe(e, cb)
  \/ \E t \in tokens : CallToken(t)
  \/ \E e \in Names : CallClear(e)
  \/ CallReset

SpecTwice == InitRecorded /\ [][NextTwice]_vars

\* NextOnce: one event, its one-time subscriptions next to an ordinary
\* subscription of an async handler, and the closures once returns, with the
\* call history recorded.  The caller keeps a closure and calls it at any
\* time from the top level, also while the promises of an emit call are pending.
NextOnce ==
  \/ TopLevel /\ CallSetup(ArrayOf(<<"a">>))
  \/ TopLevel /\ CallSubscribe("a", Callback("h2", 0), FALSE)
  \/ \E cb \in Functions, keep \in BOOLEAN : TopLevel /\ CallOnce("a", cb, keep)
  \/ \E t \in tokens : TopLevel /\ CallToken(t)
  \/ TopLevel /\ CallReset
  \/ TopLevel /\ CallEmit("a", NoArgs)
  \/ StartHandler
  \/ \E st \in {"returned", "threw", "pending"} : HandlerEnd(st)
  \/ EmitReturn
  \/ IdleStep

SpecOnce == InitRecorded /\ [][NextOnce]_vars

\* NextArgs: emit calls with arguments, to plain and one-time subscribers of
\* one event, each emit call awaited before the next call.
NextArgs ==
  \/ Idle /\ CallSetup(ArrayOf(<<"a">>))
  \/ Idle /\ CallSubscribe("a", Callback("h1", 0), FALSE)
  \/ Idle /\ CallOnce("a", Callback("h2", 0), FALSE)
  \/ \E actuals \in ArgLists : Idle /\ CallEmit("a", actuals)
  \/ StartHandler
  \/ \E st \in {"returned", "threw", "pending"} : HandlerEnd(st)
  \/ EmitReturn
  \/ IdleStep

SpecArgs == Init /\ [][NextArgs]_vars

\* NextKeys: every method with valid and invalid arguments on two events, and
\* emit calls that fire plain and one-time subscribers, each emit call awaited
\* before the next call.
NextKeys ==
  \/ \E x \in SetupInputs : Idle /\ CallSetup(x)
  \/ \E e \in Names, cb \in PlainCallbacks : Idle /\ CallSubscribe(e, cb, FALSE)
  \/ \E cb \in {Callback("h1", 0), Callback("nf", 0)} : Idle /\ CallOnce("a", cb, FALSE)
  \/ \E e \in Names, cb \in PlainCallbacks : Idle /\ CallUnsubscribe(e, cb)
  \/ \E e \in Names : Idle /\ CallClear(e)
  \/ Idle /\ CallReset
  \/ Idle /\ CallEmit("a", NoArgs)
  \/ StartHandler
  \/ \E st \in {"returned", "pending"} : HandlerEnd(st)
  \/ EmitReturn
  \/ IdleStep

SpecKeys == Init /\ [][NextKeys]_vars

\* NextCancel: one-time subscriptions of one event and the ways to take them
\* back: unsubscribe with the handler, the closure once returned, clear and
\* reset; each emit call is awaited before the next call, and the call history
\* is recorded.
NextCancel ==
  \/ Idle /\ CallSetup(ArrayOf(<<"a">>))
  \/ Idle /\ CallSubscribe("a", Callback("h1", 0), FALSE)
  \/ \E cb \in Functions, keep \in BOOLEAN : Idle /\ CallOnce("a", cb, keep)
  \/ \E cb \in Functions : Idle /\ CallUnsubscribe("a", cb)
  \/ \E t \in tokens : Idle /\ CallToken(t)
  \/ Idle /\ CallClear("a")
  \/ Idle /\ CallReset
  \/ Idle /\ CallEmit("a", NoArgs)
  \/ StartHandler
  \/ \E st \in {"returned", "pending"} : HandlerEnd(st)
  \/ EmitReturn
  \/ IdleStep

SpecCancel == InitRecorded /\ [][NextCancel]_vars

\* NextRepeat: once() called again and again for one event, with handlers it
\* has wrapped before, the returned closures kept or dropped and called at any
\* time between emit calls, each of which is awaited before the next call.
NextRepeat ==
  \/ Idle /\ CallSetup(ArrayOf(<<"a">>))
  \/ \E cb \in Functions, keep \in BOOLEAN :
       Idle /\ CallOnceUpTo("a", cb, keep, MaxRepeat, MaxRepeat)
  \/ \E t \in tokens : Idle /\ CallToken(t)
  \/ Idle /\ CallEmit("a", NoArgs)
  \/ StartHandler
  \/ \E st \in {"returned", "pending"} : HandlerEnd(st)
  \/ EmitReturn
  \/ IdleStep

SpecRepeat == InitRecorded /\ [][NextRepeat]_vars

\* NextLive: emit calls of one event, issued whether or not the earlier ones
\* have completed, to handlers that return, throw, or suspend and then resolve,
\* reject or stay suspended for ever.
NextLive ==
  \/ Idle /\ CallSetup(ArrayOf(<<"a">>))
  \/ \E cb \in Functions : Idle /\ CallSubscribe("a", cb, FALSE)
  \/ TopLevel /\ CallEmit("a", NoArgs)
  \/ StartHandler
  \/ \E st \in {"returned", "threw", "pending"} : HandlerEnd(st)
  \/ EmitReturn
  \/ IdleStep

\* Synchronous code runs to completion and the job queue is drained: the
\* fan-out goes on, a running handler reaches its end or its first await, emit
\* returns, and a settled Promise.all resumes emit.  Nothing makes a suspended
\* handler's promise settle.
Progress ==
  /\ WF_vars(StartHandler)
  /\ WF_vars(\E st \in {"returned", "threw", "pending"} : HandlerEnd(st))
  /\ WF_vars(EmitReturn)
  /\ \A id \in 1..MaxEmits : WF_vars(EmitResolve(id))

SpecLive == Init /\ [][NextLive]_vars /\ Progress

\* NextQuiet: handlers that call nothing on the bus and callers that await
\* each emit call before their next call: both events set up, plain and once
\* subscriptions on either, the returned closures dropped, clear, and emit
\* calls of either event; the bus each call left is recorded.
NextQuiet ==
  \/ \E e \in Names : Idle /\ CallSetup(ArrayOf(<<e>>))
  \/ \E e \in Names : Idle /\ CallSubscribe(e, Callback("h1", 0), FALSE)
  \/ \E e \in Names, cb \in Functions : Idle /\ CallOnce(e, cb, FALSE)
  \/ \E e \in Names : Idle /\ CallClear(e)
  \/ \E e \in Names : Idle /\ CallEmit(e, NoArgs)
  \/ StartHandler
  \/ \E st \in {"returned", "threw", "pending"} : HandlerEnd(st)
  \/ EmitReturn
  \/ IdleStep

SpecQuiet == InitBusKept /\ [][NextQuiet]_vars

\* ------------------------------------------------------------ properties
Subscribers(event) == IF MapHas(events, event) THEN Range(events[event]) ELSE {}
InvokedAll(em) ==
  /\ Len(em.invoked) = Len(em.snapshot)
  /\ \A i \in DOMAIN em.snapshot : em.invoked[i].cb = em.snapshot[i]
SomeFailed(em) == \E i \in DOMAIN em.invoked : em.invoked[i].st \in Failed

\* C1: once an emit call whose snapshot holds a throwing or rejecting handler has
\* left its fan-out, every handler of the snapshot has been invoked, in the
\* snapshot's order: a failure cuts no sibling off.
C1_SiblingsStillInvoked ==
  \A id \in DOMAIN emissions :
    (emissions[id].phase # "dispatch" /\ SomeFailed(emissions[id]))
      => InvokedAll(emissions[id])

\* A handler threw during the fan-out and the handler after it was still
\* invoked and ran to the end of its own promise.
C1_Witness ==
  \E id \in DOMAIN emissions :
    /\ Len(emissions[id].invoked) = 2
    /\ emissions[id].invoked[1].st = "threw"
    /\ emissions[id].invoked[2].st = "resolved"

\* C2: no emit call ever rejects, whatever its handlers did, and an emit call
\* whose handlers have all finished, failures included, can resolve.
C2_EmitNeverRejects ==
  \A id \in DOMAIN emissions :
    /\ emissions[id].phase # "rejected"
    /\ (emissions[id].phase = "awaiting" /\ stack = <<>>
          /\ \A i \in DOMAIN emissions[id].invoked :
               emissions[id].invoked[i].st \in Finished)
         => ENABLED EmitResolve(id)

\* An emit call resolved although one handler threw and another rejected.
C2_Witness ==
  \E id \in DOMAIN emissions :
    /\ emissions[id].phase = "resolved"
    /\ \E i \in DOMAIN emissions[id].invoked : emissions[id].invoked[i].st = "threw"
    /\ \E i \in DOMAIN emissions[id].invoked : emissions[id].invoked[i].st = "rejected"

\* C3: when an emit call's promise has resolved, every handler of its snapshot
\* has been invoked and has finished (returned, threw, resolved or rejected).
C3_ResolvedAfterAllFinished ==
  \A id \in DOMAIN emissions :
    emissions[id].phase = "resolved"
      => /\ InvokedAll(emissions[id])
         /\ \A i \in DOMAIN emissions[id].invoked :
              emissions[id].invoked[i].st \in Finished

\* A resolved emit call with a synchronous and an asynchronous handler.
C3_Witness ==
  \E id \in DOMAIN emissions :
    /\ emissions[id].phase = "resolved"
    /\ \E i \in DOMAIN emissions[id].invoked : emissions[id].invoked[i].st = "returned"
    /\ \E i \in DOMAIN emissions[id].invoked : emissions[id].invoked[i].st = "resolved"

\* C4: a callback that is a subscriber of the event now but was not one when an
\* emit call still in flight was issued (it joined during the flight) has not
\* been invoked by that emit call.
C4_LateSubscriberNotInvoked ==
  \A id \in DOMAIN emissions :
    InFlight(emissions[id])
      => \A cb \in Subscribers(emissions[id].event) \ Range(emissions[id].snapshot) :
           \A i \in DOMAIN emissions[id].invoked : emissions[id].invoked[i].cb # cb

\* A handler of the emit call called the bus while it ran, the fan-out is over,
\* and the event has a subscriber that is not in the snapshot.
C4_Witness ==
  \E id \in DOMAIN emissions :
    /\ emissions[id].phase = "awaiting"
    /\ emissions[id].snapshot # <<>>
    /\ emissions[id].called
    /\ InvokedAll(emissions[id])
    /\ Subscribers(emissions[id].event) \ Range(emissions[id].snapshot) # {}

\* C5 (as claimed): the handler passed to one once() call is invoked at most once.
C5_OnceFiresAtMostOnce ==
  \A w \in DOMAIN wrappers : wrappers[w].calls <= 1

\* C6: after once(e, fn), when the bus is used sequentially and no emit call is in
\* flight, fn has been invoked exactly once and the wrapper is no longer
\* subscribed as soon as one emit(e) has completed, and not at all before.
C6_OnceSequential ==
  \A w \in DOMAIN wrappers :
    (wrappers[w].clean /\ ~AnyInFlight)
      => IF wrappers[w].emits = 0
         THEN /\ wrappers[w].calls = 0
              /\ Callback(wrappers[w].fn, w) \in Subscribers(wrappers[w].event)
         ELSE /\ wrappers[w].calls = 1
              /\ Callback(wrappers[w].fn, w) \notin Subscribers(wrappers[w].event)

\* once, then two emit calls, each completed before the next call.
C6_Witness ==
  \E w \in DOMAIN wrappers :
    /\ wrappers[w].clean /\ ~AnyInFlight
    /\ wrappers[w].emits = 2
    /\ wrappers[w].calls = 1

\* C7 (as claimed): a call that throws leaves registeredEvents and events as they were.
C7_MisuseLeavesBusUnchanged ==
  [][result' # "ok" => (registeredEvents' = registeredEvents /\ events' = events)]_vars

C9_GatedSubscription ==
  [][\A e \in Names, cb \in PlainCallbacks, keep \in BOOLEAN :
       (CallSubscribe(e, cb, keep) \/ CallOnce(e, cb, keep))
         => /\ (result' = "NotRegistered") <=> (e \notin registeredEvents)
            /\ (e \in registeredEvents /\ IsFunction(cb))
                 => /\ result' = "ok"
                    /\ \E x \in Range(events'[e]) : x.fn = cb.fn]_vars

\* A subscription is refused although a once() succeeded for some event that is
\* no longer registered: the bus was set up, reset, and then asked to subscribe.
C9_Witness ==
  /\ result = "NotRegistered"
  /\ \E w \in DOMAIN wrappers : wrappers[w].event \notin registeredEvents

\* C10 (as claimed): calling an unsubscribe closure returned before a reset
\* changes nothing and throws nothing.
C10_StaleTokenIsNoOp ==
  [][\A t \in tokens :
       (t.stale /\ CallToken(t))
         => /\ registeredEvents' = registeredEvents
            /\ events' = events
            /\ result' = "ok"]_vars

\* C10 (amended): calling an unsubscribe closure returned before a reset throws
\* nothing and leaves registeredEvents alone; it changes a subscriber set only
\* by removing its own (event, handler) pair where that pair was subscribed
\* again after the reset; a closure returned by once changes nothing.
C10_StaleTokenRemovesOnlyOwnPair ==
  [][\A t \in tokens :
       (t.stale /\ CallToken(t))
         => /\ registeredEvents' = registeredEvents
            /\ result' = "ok"
            /\ t.cb.w > 0 => events' = events
            /\ events' # events
                 => /\ t.cb \in Subscribers(t.event)
                    /\ events' = [events EXCEPT ![t.event] = SetDelete(@, t.cb)]]_vars

\* An unsubscribe closure was called after the reset that followed its creation.
C10_Witness == \E t \in tokens : t.stale /\ t.usedStale

\* The step took the callback cb out of the subscriber set of event, if it was
\* in it, and left every other subscription of every event in place and in order.
OnlyRemoved(event, cb) ==
  /\ DOMAIN events' = DOMAIN events
  /\ \A e \in DOMAIN events :
       IF e = event /\ cb \in Range(events[e])
       THEN /\ Range(events'[e]) = Range(events[e]) \ {cb}
            /\ Len(events'[e]) = Len(events[e]) - 1
       ELSE events'[e] = events[e]

\* C11 (as claimed): the first call of a closure returned by subscribe(e, h)
\* removes exactly the pair (e, h), and every later call of it changes nothing.
C11_LaterCallsAreNoOps ==
  [][\A t \in tokens :
       (t.cb.w = 0 /\ CallToken(t))
         => /\ registeredEvents' = registeredEvents
            /\ IF t.calls = 0 THEN OnlyRemoved(t.event, t.cb) ELSE events' = events]_vars

\* C11 (amended): every call of a closure returned by subscribe(e, h), the first
\* and the later ones, throws nothing, leaves registeredEvents alone and removes
\* exactly the pair (e, h) if it is subscribed at that time (so a later call
\* changes something only if h was subscribed to e again in between), and
\* calling it once more right away changes nothing.
C11_TokenIdempotent ==
  [][\A t \in tokens :
       (t.cb.w = 0 /\ CallToken(t))
         => /\ result' = "ok"
            /\ registeredEvents' = registeredEvents
            /\ OnlyRemoved(t.event, t.cb)
            /\ (t.calls > 0 /\ ~IsSubscriber(t.event, t.cb)) => events' = events
            /\ LET again == unsubscribeClosure(
                               [reg |-> registeredEvents', ev |-> events'], t) IN
                 /\ again.reg = registeredEvents'
                 /\ again.ev = events'
                 /\ again.result = "ok"]_vars

\* A closure returned by subscribe has been called twice and its handler is not
\* subscribed, while another handler of the same event still is.
C11_Witness ==
  \E t \in tokens :
    /\ t.cb.w = 0 /\ t.calls = 2 /\ ~t.stale
    /\ ~IsSubscriber(t.event, t.cb)
    /\ Subscribers(t.event) # {}

\* The subscriber set of event in insertion order, empty where there is no entry.
Current(event) == IF MapHas(events, event) THEN events[event] ELSE <<>>

\* The emit calls issued since the most recent recorded call into the bus.
SinceLast == {emissions[id] : id \in last.since}

\* C12: unsubscribe(e, h) throws nothing, leaves registeredEvents alone and takes
\* only h out of the subscriber set of e; every emit issued afterwards snapshots
\* the subscribers that remain, in their order, never invokes h for e, and has
\* invoked each remaining subscriber once its fan-out is over. Calling the
\* closure that subscribe(e, h) returns does to the bus what unsubscribe(e, h) does.
C12_UnsubscribeRemovesOnlyTarget ==
  /\ [][\A e \in Names, cb \in Functions :
          CallUnsubscribe(e, cb)
            => /\ result' = "ok"
               /\ registeredEvents' = registeredEvents
               /\ OnlyRemoved(e, cb)
               /\ MapHas(events', e) => cb \notin Range(events'[e])]_vars
  /\ [](\A e \in Names, cb \in Functions :
          unsubscribeClosure(Bus, subscribeReturns(e, cb)) = unsubscribe(Bus, e, cb))
  /\ [](last.op = "unsubscribe"
          => \A em \in SinceLast :
               /\ em.snapshot = Current(em.event)
               /\ em.event = last.event
                    => /\ last.cb \notin Range(em.snapshot)
                       /\ \A i \in DOMAIN em.invoked : em.invoked[i].cb # last.cb
               /\ em.phase # "dispatch" => InvokedAll(em))

\* A subscribed handler was removed with unsubscribe, and an emit of its event
\* issued afterwards has resolved after invoking the handler that was left.
C12_Witness ==
  /\ last.op = "unsubscribe" /\ last.hit
  /\ \E em \in SinceLast :
       /\ em.event = last.event
       /\ em.phase = "resolved"
       /\ em.snapshot # <<>>
       /\ InvokedAll(em)

NoDuplicates(seq) == \A i, j \in DOMAIN seq : seq[i] = seq[j] => i = j

\* How many times the emit call em has invoked the callback cb.
TimesInvoked(em, cb) == Cardinality({i \in DOMAIN em.invoked : em.invoked[i].cb = cb})

\* C13: subscribe(e, h) for a handler that is already subscribed to e succeeds
\* and changes no subscriber set; no subscriber set and no snapshot ever holds a
\* handler twice, no emit call invokes a handler twice, and an emit of e issued
\* after the repeated subscribe has invoked h exactly once when its fan-out is over.
C13_DeduplicatedSubscription ==
  /\ [][\A e \in Names, cb \in Functions :
          (CallSubscribe(e, cb, FALSE) /\ IsSubscriber(e, cb))
            => /\ result' = "ok"
               /\ events' = events
               /\ registeredEvents' = registeredEvents]_vars
  /\ [](/\ \A e \in DOMAIN events : NoDuplicates(events[e])
        /\ \A id \in DOMAIN emissions :
             /\ NoDuplicates(emissions[id].snapshot)
             /\ \A cb \in Functions : TimesInvoked(emissions[id], cb) <= 1
        /\ (last.op = "subscribe" /\ last.hit)
             => \A em \in SinceLast :
                  (em.event = last.event /\ em.phase # "dispatch")
                    => TimesInvoked(em, last.cb) = 1)

\* A handler was subscribed to an event it was already subscribed to, and an emit
\* of that event issued afterwards has resolved.
C13_Witness ==
  /\ last.op = "subscribe" /\ last.hit
  /\ \E em \in SinceLast :
       /\ em.event = last.event
       /\ em.phase = "resolved"
       /\ TimesInvoked(em, last.cb) = 1

\* C14: setup leaves every name that is already registered registered and its
\* subscriber set as it was, and a setup call that names only registered events
\* changes nothing at all; an emit issued after a setup call that named a
\* registered event snapshots the current subscribers and has invoked each of
\* them when its fan-out is over.
C14_IdempotentRegistration ==
  /\ [][\A x \in SetupInputs :
          CallSetup(x)
            => /\ \A n \in registeredEvents :
                    /\ n \in registeredEvents'
                    /\ MapHas(events', n)
                    /\ events'[n] = events[n]
               /\ (x.isArray /\ Range(x.items) \subseteq registeredEvents)
                    => /\ result' = "ok"
                       /\ registeredEvents' = registeredEvents
                       /\ events' = events]_vars
  /\ [](\A n \in registeredEvents : MapHas(events, n))
  /\ []((last.op = "setup" /\ last.hit)
          => \A em \in SinceLast :
               /\ em.snapshot = Current(em.event)
               /\ em.phase # "dispatch" => InvokedAll(em))

\* setup was called for a registered event that had subscribers, and an emit of
\* that event issued afterwards has resolved after invoking them.
C14_Witness ==
  /\ last.op = "setup" /\ last.hit
  /\ \E em \in SinceLast :
       /\ em.event = last.event
       /\ em.phase = "resolved"
       /\ em.snapshot # <<>>
       /\ InvokedAll(em)

\* The emit calls issued since the most recent reset, and those issued before it.
SinceReset == {emissions[id] : id \in sinceReset.emits}
BeforeReset == {emissions[id] : id \in DOMAIN emissions \ sinceReset.emits}

\* C15: reset throws nothing and leaves registeredEvents and the subscriber map
\* empty; subscribe(e, h) for a name that no setup call has registered since the
\* reset throws NotRegistered and changes nothing; an emit issued after the reset
\* invokes only handlers that were subscribed to its event after the reset.
C15_ResetEmptiesEverything ==
  /\ [][/\ CallReset
             => /\ result' = "ok"
                /\ registeredEvents' = {}
                /\ events' = EmptyMap
        /\ \A e \in Names, cb \in Functions :
             (CallSubscribe(e, cb, FALSE) /\ e \notin passedBeforeBad)
               => /\ result' = "NotRegistered"
                  /\ registeredEvents' = registeredEvents
                  /\ events' = events]_vars
  /\ [](\A em \in SinceReset :
          /\ \A i \in DOMAIN em.snapshot :
               <<em.event, em.snapshot[i]>> \in sinceReset.subs
          /\ \A i \in DOMAIN em.invoked :
               <<em.event, em.invoked[i].cb>> \in sinceReset.subs)

\* An emit before the reset invoked a handler; after the reset the event was
\* registered again and another handler subscribed, and an emit issued then has
\* resolved after invoking that one and not the handler of before.
C15_Witness ==
  \E before \in BeforeReset, after \in SinceReset :
    /\ before.event = after.event
    /\ after.phase = "resolved"
    /\ after.invoked # <<>>
    /\ \E i \in DOMAIN before.invoked :
         /\ before.invoked[i].cb \notin Range(after.snapshot)
         /\ <<before.event, before.invoked[i].cb>> \notin sinceReset.subs

\* C16: clear(e) for an event that has an entry throws nothing, empties the
\* subscriber set of e, keeps the entry and every other event's subscriber set,
\* and leaves registeredEvents alone with e in it, so that subscribe(e, h) called
\* next succeeds and makes h the one subscriber; an emit of e issued after the
\* clear has an empty snapshot and invokes nothing.
C16_ClearEmptiesOneEvent ==
  /\ [][\A e \in Names :
          (CallClear(e) /\ MapHas(events, e))
            => /\ result' = "ok"
               /\ registeredEvents' = registeredEvents
               /\ e \in registeredEvents'
               /\ DOMAIN events' = DOMAIN events
               /\ events'[e] = <<>>
               /\ \A o \in DOMAIN events \ {e} : events'[o] = events[o]
               /\ \A cb \in Functions :
                    LET r == subscribe([reg |-> registeredEvents', ev |-> events'],
                                       e, cb) IN
                      /\ r.result = "ok"
                      /\ r.ev[e] = <<cb>>]_vars
  /\ []((last.op = "clear" /\ last.hit)
          => \A em \in SinceLast :
               /\ em.snapshot = Current(em.event)
               /\ em.event = last.event
                    => em.snapshot = <<>> /\ em.invoked = <<>>)

\* clear was called for an event with subscribers while another event had
\* subscribers too, and an emit of the cleared event issued afterwards has
\* resolved without invoking anything.
C16_Witness ==
  /\ last.op = "clear" /\ last.hit
  /\ \E em \in SinceLast : em.event = last.event /\ em.phase = "resolved"
  /\ \E em \in DOMAIN emissions \ last.since : emissions[em].snapshot # <<>>
  /\ \E o \in DOMAIN events : o # last.event /\ events[o] # <<>>

\* The step leaves registeredEvents and the subscriber map as they were and
\* throws nothing.
NoEffect ==
  /\ result' = "ok"
  /\ registeredEvents' = registeredEvents
  /\ events' = events

\* C17: unsubscribe(e, h), clear(e) and emit(e) for a name without an entry in
\* the subscriber map, and emit(e) for an event whose subscriber set is empty,
\* throw nothing and leave registeredEvents and the subscriber map unchanged;
\* such an emit call has an empty snapshot, invokes no handler at any step, is
\* never rejected, and can resolve as soon as the caller's turn is over.
C17_SafeNoOps ==
  /\ [][/\ \A e \in Names, cb \in Functions :
             (CallUnsubscribe(e, cb) /\ ~MapHas(events, e)) => NoEffect
        /\ \A e \in Names :
             (CallClear(e) /\ ~MapHas(events, e)) => NoEffect
        /\ \A e \in Names :
             (CallEmit(e, NoArgs) /\ Current(e) = <<>>)
               => /\ NoEffect
                  /\ emissions'[Len(emissions')].snapshot = <<>>
        /\ \A id \in DOMAIN emissions :
             (emissions[id].snapshot = <<>> /\ emissions'[id] # emissions[id])
               => NoEffect]_vars
  /\ [](\A id \in DOMAIN emissions :
          emissions[id].snapshot = <<>>
            => /\ emissions[id].invoked = <<>>
               /\ emissions[id].phase # "rejected"
               /\ (emissions[id].phase = "awaiting" /\ stack = <<>>)
                    => ENABLED EmitResolve(id))

\* After a reset that threw away an event with subscribers, clear was called for
\* that event, which has no entry, and an emit of it issued afterwards has resolved.
C17_Witness ==
  /\ last.op = "clear" /\ ~last.hit
  /\ ~MapHas(events, last.event)
  /\ \E em \in SinceLast : em.event = last.event /\ em.phase = "resolved"
  /\ \E id \in DOMAIN emissions \ last.since : emissions[id].snapshot # <<>>

\* The wrapper that the once() call numbered w subscribed.
WrapperOf(w) == Callback(wrappers[w].fn, w)

\* C18: once the closure returned by once(e, fn) has been called before any
\* emit(e) was issued after that once call, the wrapper of that once call is not
\* subscribed to e, has never run fn, and is invoked by no emit call.
C18_OnceTokenCancels ==
  \A t \in tokens :
    (t.of > 0 /\ t.early)
      => /\ wrappers[t.of].calls = 0
         /\ ~IsSubscriber(t.event, WrapperOf(t.of))
         /\ \A id \in DOMAIN emissions :
              /\ WrapperOf(t.of) \notin Range(emissions[id].snapshot)
              /\ \A i \in DOMAIN emissions[id].invoked :
                   emissions[id].invoked[i].cb # WrapperOf(t.of)

\* The closure of a once call was called before any emit of its event, and an
\* emit of that event issued later has resolved after invoking another handler.
C18_Witness ==
  \E t \in tokens :
    /\ t.of > 0 /\ t.early
    /\ \E id \in DOMAIN emissions :
         /\ id > t.born
         /\ emissions[id].event = t.event
         /\ emissions[id].phase = "resolved"
         /\ emissions[id].invoked # <<>>

\* C19: every reference a construction has returned is the module's one
\* instance, which stays the class's static instance; a construction after the
\* first throws nothing and leaves registeredEvents and the subscriber map,
\* which every reference and every exported function reads, as they were.
C19_SharedSingleton ==
  /\ [](instance = Singleton /\ held = {Singleton})
  /\ [][CallNew => NoEffect /\ instance' = instance /\ held' = held]_vars

\* new Events() was called while an event was registered and had a subscriber.
C19_Witness ==
  /\ last.op = "new" /\ last.hit
  /\ registeredEvents # {}
  /\ \E e \in DOMAIN events : events[e] # <<>>

InvokedPrefix(em) ==
  /\ Len(em.invoked) <= Len(em.snapshot)
  /\ \A i \in DOMAIN em.invoked : em.invoked[i].cb = em.snapshot[i]

\* C21: the snapshot of an emit call is the subscriber set of its event at the
\* moment of the call, in insertion order; the call invokes the handlers of that
\* snapshot and no others, and once its fan-out is over it has invoked every one
\* of them, also those that a sibling handler has removed with unsubscribe, clear
\* or reset in the meantime.
C21_DispatchIsEntrySnapshot ==
  /\ [][CallEmit("a", NoArgs)
          => emissions'[Len(emissions')].snapshot = Current("a")]_vars
  /\ [](\A id \in DOMAIN emissions :
          /\ InvokedPrefix(emissions[id])
          /\ emissions[id].phase # "dispatch" => InvokedAll(emissions[id]))

\* During the fan-out of an emit call the second handler of the snapshot, a
\* plain one, has just been invoked although the first handler had taken it out
\* of the subscriber set.
C21_Witness ==
  \E id \in DOMAIN emissions :
    LET em == emissions[id] IN
      /\ em.phase = "dispatch"
      /\ Len(em.invoked) = 2
      /\ em.invoked[2].st = "running"
      /\ ~em.called
      /\ em.invoked[2].cb.w = 0
      /\ em.invoked[2].cb \notin Subscribers(em.event)

\* C22: while the fan-out of an emit call runs, no promise of a handler has
\* been awaited to its end, and the next handler of the snapshot can be started
\* as soon as the synchronous part of the previous one is over, whether or not
\* earlier handlers are suspended; so an emit call that awaits has started every
\* handler of its snapshot, and each suspended handler can then finish whether
\* or not its siblings ever do.
C22_StartAllBeforeAwait ==
  \A id \in DOMAIN emissions :
    LET em == emissions[id] IN
      /\ em.phase = "dispatch"
           => \A i \in DOMAIN em.invoked : em.invoked[i].st \notin {"resolved", "rejected"}
      /\ (em.phase = "dispatch" /\ stack # <<>> /\ Top = id /\ ~Running(em)
            /\ Len(em.invoked) < Len(em.snapshot))
           => ENABLED StartHandler
      /\ em.phase = "awaiting"
           => /\ InvokedAll(em)
              /\ \A j \in DOMAIN em.invoked :
                   /\ em.invoked[j].st # "running"
                   /\ (em.invoked[j].st = "pending" /\ stack = <<>>)
                        => ENABLED Settle(id, j, "resolved")

\* The first handler of an emit call is suspended and has not resumed, and the
\* second handler has been started and has finished.
C22_Witness ==
  \E id \in DOMAIN emissions :
    /\ emissions[id].phase = "awaiting"
    /\ Len(emissions[id].invoked) = 2
    /\ emissions[id].invoked[1].st = "pending"
    /\ emissions[id].invoked[2].st \in {"returned", "resolved"}

\* The emit call id has been issued and every handler of its snapshot has been
\* invoked and has finished, with or without a failure.
AllFinished(id) ==
  /\ id \in DOMAIN emissions
  /\ InvokedAll(emissions[id])
  /\ \A i \in DOMAIN emissions[id].invoked : emissions[id].invoked[i].st \in Finished
Resolved(id) == id \in DOMAIN emissions /\ emissions[id].phase = "resolved"

\* C23: under fair progress of the running code, an emit call whose handlers
\* have all finished, successfully or with a failure, eventually resolves; and
\* an emit call resolves only in a step taken when all of them have finished,
\* so it never resolves while a handler of its snapshot stays unfinished.
C23_EmitLiveness ==
  /\ \A id \in 1..MaxEmits : AllFinished(id) ~> Resolved(id)
  /\ [][\A id \in 1..MaxEmits :
          (Resolved(id)' /\ ~Resolved(id)) => AllFinished(id)]_vars
  /\ \A id \in 1..MaxEmits : [](Resolved(id) => AllFinished(id))

\* One emit call has resolved after a handler of its snapshot rejected, while
\* another emit call still waits for a suspended handler.
C23_Witness ==
  \E id, other \in DOMAIN emissions :
    /\ emissions[id].phase = "resolved"
    /\ \E i \in DOMAIN emissions[id].invoked : emissions[id].invoked[i].st = "rejected"
    /\ emissions[other].phase = "awaiting"
    /\ \E i \in DOMAIN emissions[other].invoked : emissions[other].invoked[i].st = "pending"

\* The invocation that is running in the emit call id, the last one it made.
RunningIn(id) == emissions[id].invoked[Len(emissions[id].invoked)]

\* The emit calls that were issued by the handler running at depth k of the
\* stack or by a handler running below one of them: the deeper stack entries.
NestedIn(k) == {stack[l] : l \in (k + 1)..Len(stack)}

\* C24: while a once wrapper is running in an emit call, it is not a subscriber
\* of its event, and an emit call of that event that it, or a handler invoked
\* on its behalf, issues neither has the wrapper in its snapshot nor invokes it.
C24_OnceReentrancy ==
  \A k \in DOMAIN stack :
    (Running(emissions[stack[k]]) /\ RunningIn(stack[k]).cb.w > 0)
      => LET wrapper == RunningIn(stack[k]).cb IN
           /\ ~IsSubscriber(wrappers[wrapper.w].event, wrapper)
           /\ \A id \in NestedIn(k) :
                /\ wrapper \notin Range(emissions[id].snapshot)
                /\ \A i \in DOMAIN emissions[id].invoked :
                     emissions[id].invoked[i].cb # wrapper

\* A running once wrapper has issued an emit call of its own event, and that
\* call has invoked the other subscriber of the event.
C24_Witness ==
  /\ Len(stack) = 2
  /\ Running(emissions[stack[1]])
  /\ RunningIn(stack[1]).cb.w > 0
  /\ emissions[stack[2]].event = emissions[stack[1]].event
  /\ emissions[stack[2]].invoked # <<>>

\* C25: the step that invokes a once wrapper leaves the wrapper out of the
\* subscriber set of its event, with the wrapped handler only just running; from
\* then on the wrapper is no subscriber, whether the wrapped handler is running,
\* suspended, or has returned, thrown, resolved or rejected; and the emit call
\* is not rejected by such a failure and can resolve once all its handlers have
\* finished.
C25_OnceRemovesBeforeInvoking ==
  /\ [][\A id \in DOMAIN emissions :
          (StartHandler /\ stack # <<>> /\ Top = id
             /\ emissions[id].snapshot[Len(emissions[id].invoked) + 1].w > 0)
            => LET wrapper == emissions[id].snapshot[Len(emissions[id].invoked) + 1] IN
                 /\ emissions'[id].invoked[Len(emissions'[id].invoked)] =
                      Invocation(wrapper, "running", emissions[id].args)
                 /\ MapHas(events', emissions[id].event)
                      => wrapper \notin Range(events'[emissions[id].event])]_vars
  /\ [](\A id \in DOMAIN emissions :
          /\ \A i \in DOMAIN emissions[id].invoked :
               emissions[id].invoked[i].cb.w > 0
                 => ~IsSubscriber(emissions[id].event, emissions[id].invoked[i].cb)
          /\ emissions[id].phase # "rejected"
          /\ (stack = <<>> /\ emissions[id].phase = "awaiting" /\ AllFinished(id))
               => ENABLED EmitResolve(id))

\* An emit call has resolved although the handler behind a once wrapper failed,
\* and another emit call waits for the handler behind a once wrapper, which is
\* suspended; the event still has its entry in the subscriber map.
C25_Witness ==
  \E id, other \in DOMAIN emissions :
    /\ MapHas(events, emissions[id].event)
    /\ emissions[id].phase = "resolved"
    /\ \E i \in DOMAIN emissions[id].invoked :
         /\ emissions[id].invoked[i].cb.w > 0
         /\ emissions[id].invoked[i].st \in Failed
    /\ emissions[other].phase = "awaiting"
    /\ \E i \in DOMAIN emissions[other].invoked :
         /\ emissions[other].invoked[i].cb.w > 0
         /\ emissions[other].invoked[i].st = "pending"

\* C26: the names in registeredEvents are exactly the keys of the subscriber
\* map, in every state reached by setup calls, failing ones included, subscribe,
\* once, unsubscribe, clear, reset and emit calls and the handlers they run.
C26_SameKeySet == registeredEvents = DOMAIN events

\* A setup call has failed on a non-string after the last reset, the last call
\* threw, and a registered event has a subscriber.
C26_Witness ==
  /\ passed # passedBeforeBad
  /\ result = "InvalidArgument"
  /\ \E e \in registeredEvents : MapHas(events, e) /\ events[e] # <<>>

\* C27: a step that is not a reset call takes no name out of registeredEvents
\* and no key out of the subscriber map.
C27_MonotonicBetweenResets ==
  [][CallReset \/ (/\ registeredEvents \subseteq registeredEvents'
                   /\ DOMAIN events \subseteq DOMAIN events')]_vars

\* An emit call has fired a once wrapper and resolved, the last call threw for
\* an invalid argument, and both events are registered with no subscriber left.
C27_Witness ==
  /\ result = "InvalidArgument"
  /\ registeredEvents = Names
  /\ \A e \in Names : MapHas(events, e) /\ events[e] = <<>>
  /\ \E id \in DOMAIN emissions :
       /\ emissions[id].phase = "resolved"
       /\ \E i \in DOMAIN emissions[id].invoked : emissions[id].invoked[i].cb.w > 0

\* The handler invocations of the emit call em that have thrown or rejected.
Failures(em) == {i \in DOMAIN em.invoked : em.invoked[i].st \in Failed}

\* C28: at every moment the diagnostic lines an emit call has written are as
\* many as the handler invocations of it that have thrown or rejected, all of
\* them quote the event of the emit call, and none quotes another name; so an
\* invocation that succeeds writes none, and a completed emit call has written
\* one line per failing handler of its snapshot.
C28_OneDiagnosticPerFailure ==
  \A id \in DOMAIN emissions :
    /\ emissions[id].diag[emissions[id].event] = Cardinality(Failures(emissions[id]))
    /\ \A e \in Names \ {emissions[id].event} : emissions[id].diag[e] = 0

\* An emit call has resolved after one of its two handlers failed and the
\* other succeeded, with one diagnostic line written.
C28_Witness ==
  \E id \in DOMAIN emissions :
    /\ emissions[id].phase = "resolved"
    /\ Len(emissions[id].invoked) = 2
    /\ Cardinality(Failures(emissions[id])) = 1
    /\ emissions[id].diag[emissions[id].event] = 1

\* C29: no emit call invokes a callback twice, whatever other emit calls are in
\* flight, and an emit call whose fan-out is over has invoked every handler of
\* its snapshot once; so two emit calls that both hold a plain handler in their
\* snapshots have, once their fan-outs are over, invoked it twice in all, once
\* each.
C29_ExactlyOncePerEmission ==
  \A id \in DOMAIN emissions :
    LET em == emissions[id] IN
      /\ \A i \in DOMAIN em.invoked : TimesInvoked(em, em.invoked[i].cb) = 1
      /\ em.phase # "dispatch"
           => \A i \in DOMAIN em.snapshot : TimesInvoked(em, em.snapshot[i]) = 1
      /\ \A other \in DOMAIN emissions \ {id} :
           (em.phase # "dispatch" /\ emissions[other].phase # "dispatch")
             => \A cb \in Range(em.snapshot) \cap Range(emissions[other].snapshot) :
                  TimesInvoked(em, cb) + TimesInvoked(emissions[other], cb) = 2

\* Two emit calls are in flight together, both waiting for suspended handlers,
\* and each has invoked a plain handler that is still subscribed.
C29_Witness ==
  /\ stack = <<>>
  /\ \E id, other \in DOMAIN emissions :
       /\ id < other
       /\ emissions[id].phase = "awaiting"
       /\ emissions[other].phase = "awaiting"
       /\ \E cb \in Subscribers(emissions[id].event) :
            /\ cb.w = 0
            /\ TimesInvoked(emissions[id], cb) = 1
            /\ TimesInvoked(emissions[other], cb) = 1

\* The once() wrappers that are subscribers of event.
SubscribedWrappers(event) == {m \in Subscribers(event) : m.w > 0}

\* C30: unsubscribe(e, fn) with a handler fn throws nothing, leaves every once
\* wrapper in the subscriber set of e, and changes nothing at all unless fn
\* itself is a subscriber; an emit of e called right after it snapshots those
\* wrappers, and an emit call issued after it has invoked every wrapper of its
\* snapshot, and so the handler behind it, once its fan-out is over.  A wrapper
\* leaves the subscriber set only in a call of the closure that its once call
\* returned, in a clear or a reset call, or in the step that invokes it.
C30_UnsubscribeKeepsOnceWrapper ==
  /\ [][/\ \A cb \in Functions :
             CallUnsubscribe("a", cb)
               => /\ result' = "ok"
                  /\ \A m \in SubscribedWrappers("a") : m \in Range(events'["a"])
                  /\ ~IsSubscriber("a", cb) => events' = events
        /\ (CallEmit("a", NoArgs) /\ last.op = "unsubscribe" /\ last.since = {})
             => SubscribedWrappers("a")
                  \subseteq Range(emissions'[Len(emissions')].snapshot)
        /\ \A m \in SubscribedWrappers("a") :
             (MapHas(events', "a") => m \notin Range(events'["a"]))
               => \/ \E t \in tokens : t.of = m.w /\ t.cb = m /\ CallToken(t)
                  \/ CallClear("a")
                  \/ CallReset
                  \/ StartHandler /\ RunningIn(Top)' .cb = m]_vars
  /\ [](last.op = "unsubscribe"
          => \A em \in SinceLast :
               em.phase # "dispatch"
                 => \A i \in DOMAIN em.snapshot :
                      em.snapshot[i].w > 0
                        => /\ TimesInvoked(em, em.snapshot[i]) = 1
                           /\ wrappers[em.snapshot[i].w].calls >= 1)

\* After once(e, fn), unsubscribe(e, fn) was called while fn itself was not
\* subscribed, and an emit of e issued afterwards has resolved after invoking
\* the wrapper of fn.
C30_Witness ==
  /\ last.op = "unsubscribe" /\ ~last.hit /\ last.cb.w = 0
  /\ \E em \in SinceLast :
       /\ em.event = last.event
       /\ em.phase = "resolved"
       /\ \E i \in DOMAIN em.invoked :
            /\ em.invoked[i].cb.w > 0
            /\ em.invoked[i].cb.fn = last.cb.fn

\* The invocations by the emit call em of a once wrapper around the handler fn,
\* and the wrappers around fn in a sequence of callbacks.
WrappedInvocations(em, fn) ==
  {i \in DOMAIN em.invoked : em.invoked[i].cb.w > 0 /\ em.invoked[i].cb.fn = fn}
WrappersOf(seq, fn) == {i \in DOMAIN seq : seq[i].w > 0 /\ seq[i].fn = fn}

\* The closure that the once() call numbered w returned has been called.
Cancelled(w) == \E t \in tokens : t.of = w /\ t.calls > 0

\* C31: every successful once(e, fn) call adds one new member to the subscriber
\* set of e, whether or not fn is wrapped in it already; a wrapper stays a
\* subscriber until an emit invokes it or the closure its own once call returned
\* is called, and a call of such a closure removes only that one wrapper; an emit
\* call whose fan-out is over has invoked fn once for each wrapper around fn in
\* its snapshot.
C31_OnceNotDeduplicated ==
  /\ [][/\ \A cb \in Functions, keep \in BOOLEAN :
             (CallOnceUpTo("a", cb, keep, MaxRepeat, MaxRepeat) /\ result' = "ok")
               => /\ Len(events'["a"]) = Len(events["a"]) + 1
                  /\ \A i \in DOMAIN events["a"] : events'["a"][i] = events["a"][i]
                  /\ events'["a"][Len(events'["a"])].fn = cb.fn
                  /\ events'["a"][Len(events'["a"])] \notin Range(events["a"])
        /\ \A t \in tokens :
             (t.of > 0 /\ CallToken(t))
               => /\ result' = "ok"
                  /\ t.cb = WrapperOf(t.of)
                  /\ OnlyRemoved(t.event, WrapperOf(t.of))
        /\ CallEmit("a", NoArgs)
             => emissions'[Len(emissions')].snapshot = Current("a")]_vars
  /\ [](/\ \A w \in DOMAIN wrappers :
             IsSubscriber(wrappers[w].event, WrapperOf(w))
               <=> (wrappers[w].calls = 0 /\ ~Cancelled(w))
        /\ \A id \in DOMAIN emissions :
             emissions[id].phase # "dispatch"
               => \A fn \in Handlers :
                    Cardinality(WrappedInvocations(emissions[id], fn))
                      = Cardinality(WrappersOf(emissions[id].snapshot, fn)))

\* once was called three times with the same handler; the closure of one call
\* was called and its wrapper was never invoked, and an emit call has resolved
\* after invoking the handler twice, through the two other wrappers.
C31_Witness ==
  \E t \in tokens :
    /\ t.of > 0 /\ t.calls > 0
    /\ wrappers[t.of].calls = 0
    /\ \E id \in DOMAIN emissions :
         /\ emissions[id].phase = "resolved"
         /\ Cardinality(WrappedInvocations(emissions[id], wrappers[t.of].fn)) = 2

\* An emit call of event issued since the last other call has invoked cb.
InvokedSince(event, cb) ==
  \E id \in last.since :
    /\ emissions[id].event = event
    /\ \E i \in DOMAIN emissions[id].invoked : emissions[id].invoked[i].cb = cb

\* The bus as the last call other than emit left it, less the once wrappers
\* that the emit calls issued since have invoked, each taken out of the
\* subscriber set of the event emitted.
LeftByLast ==
  [reg |-> last.bus.reg,
   ev |-> [e \in DOMAIN last.bus.ev |->
             SelectSeq(last.bus.ev[e], LAMBDA cb : ~(cb.w > 0 /\ InvokedSince(e, cb)))]]

\* C32: where no handler calls the bus and every emit call is awaited, no step
\* of an emit call (the call itself, a handler ending, the return of the
\* promise, a settlement, the resolution) changes registeredEvents or any
\* subscriber set, except the step that invokes a once wrapper, which takes
\* that wrapper, and nothing else, out of the subscriber set of the event
\* emitted; so the bus is at all times what the last call other than emit left,
\* less the once wrappers invoked since, and is identical to what that call left
\* when the emit calls issued since had no once wrapper in their snapshots.
C32_EmitLeavesBusAlone ==
  /\ [][/\ (\/ \E e \in Names : CallEmit(e, NoArgs)
             \/ \E st \in {"returned", "threw", "pending"} : HandlerEnd(st)
             \/ EmitReturn
             \/ IdleStep)
              => (registeredEvents' = registeredEvents /\ events' = events)
        /\ StartHandler
              => LET em == emissions[Top]
                     cb == em.snapshot[Len(em.invoked) + 1] IN
                   /\ registeredEvents' = registeredEvents
                   /\ IF cb.w > 0
                      THEN /\ IsSubscriber(em.event, cb)
                           /\ OnlyRemoved(em.event, cb)
                      ELSE events' = events]_vars
  /\ [](/\ Bus = LeftByLast
        /\ (\A id \in last.since, fn \in Handlers :
               WrappersOf(emissions[id].snapshot, fn) = {})
              => (registeredEvents = last.bus.reg /\ events = last.bus.ev))

\* An emit call of "a", issued after the last other call, has resolved after
\* invoking a once wrapper and a plain handler: the wrapper is gone from the
\* subscriber set of "a", the plain handler is still in it, and the handler
\* subscribed to "b" is still there.
C32_Witness ==
  \E id \in last.since :
    /\ emissions[id].phase = "resolved"
    /\ emissions[id].event = "a"
    /\ IsSubscriber("b", Callback("h1", 0))
    /\ \E i, j \in DOMAIN emissions[id].invoked :
         /\ emissions[id].invoked[i].cb.w > 0
         /\ emissions[id].invoked[j].cb.w = 0
         /\ ~IsSubscriber("a", emissions[id].invoked[i].cb)
         /\ IsSubscriber("a", emissions[id].invoked[j].cb)
         /\ last.bus.ev["a"] = emissions[id].snapshot

====
